---- MODULE Spec2Model ----
(***************************************************************************)
(* A model of beal.cc: the per-modulus power-residue table (class cz), the  *)
(* pruned (a,x,b,y) enumerator (class axby), the search orchestrator        *)
(* (class work) and the C-linkage boundary around them.                     *)
(*                                                                          *)
(* Objects handed out by the boundary are modelled as option values: <<>>   *)
(* is the null handle, <<obj>> a live object.                               *)
(***************************************************************************)
EXTENDS Integers, Sequences, FiniteSets, TLC

VARIABLES
  czp,      \* the handle returned by cz_make
  axbyp,    \* the handle returned by axby_make
  workp,    \* the handle returned by work_make
  last,     \* the last boundary call: its name, arguments and return value
  aborted,  \* an assertion failed (or an undefined access crashed): the process is gone
  yielded,  \* history: the points the live enumerator returned with done = false
  pts,      \* the caller's result buffer of work_do_work
  slice,    \* the driver's position when all slices are enumerated in turn
  pairs,    \* history: the (a,b) of every point yielded by the slices driven so far
  thr,      \* the do_work invocations in progress, one per calling thread
  returned  \* history: the <<a, results>> of every completed do_work, in call order

vars == <<czp, axbyp, workp, last, aborted, yielded, pts, slice, pairs, thr, returned>>

(* ------------------------------ bounds --------------------------------- *)

\* The width of uint32_t, scaled down: residues, moduli and sieve indices are
\* UintBits-bit values.
UintBits == 3
\* The largest maxb given to a constructor.
MaxBase == 4
\* The largest maxp given to a constructor.
MaxExp == 5
\* The largest maxb given to an orchestrator.
WorkMaxBase == 3
\* The largest capacity of a caller's result buffer.
MaxLen == 4

RECURSIVE Pow(_, _)
\* The mathematical power c^z, the reference the residues are compared with.
Pow(c, z) == IF z = 0 THEN 1 ELSE c * Pow(c, z - 1)

UINT32_MAX == Pow(2, UintBits) - 1

NULL == <<>>

\* The value an aborted call "returns" in the call record.
ABORT == -1

\* The driver's record when no driver runs.
NoSlice == [maxb |-> 0, maxp |-> 0, a |-> 0]

\* The threads that may call do_work on the one orchestrator.
Threads == {"t1", "t2"}

\* A thread that is not inside do_work.
IdleSearch ==
  [pc |-> "idle", a |-> 0, pts |-> NULL, done |-> FALSE, i |-> 0,
   found |-> FALSE, val |-> 0, results |-> <<>>, seen |-> <<>>]

NoSearches == [t \in Threads |-> IdleSearch]

(* -------------------- numeric primitives (math.h) ---------------------- *)

RECURSIVE modpow(_, _, _)
\* base^exponent mod mod by squaring.
modpow(base, exponent, mod) ==
  IF exponent = 0 THEN 1 % mod
  ELSE LET h == modpow((base * base) % mod, exponent \div 2, mod)
       IN  IF exponent % 2 = 1 THEN ((base % mod) * h) % mod ELSE h

RECURSIVE gcd(_, _)
\* Greatest common divisor, gcd(0, v) = v.
gcd(u, v) == IF u = 0 THEN v ELSE gcd(v % u, u)

(* ------------------------------ class cz ------------------------------- *)

\* A mutant of CzVal: base and exponent swapped in the modpow call.
CzValSwapped(c, z, mod) == modpow(z, c, mod)

\* The residue stored for (c, z).
CzVal(c, z, mod) == modpow(c, z, mod)

\* A mutant of CzMark: the sieve is indexed by the exponent, not the residue.
CzMarkByExp(ex, z, val) == [ex EXCEPT ![z] = TRUE]

\* exists_[val] = true.
CzMark(ex, z, val) == [ex EXCEPT ![val] = TRUE]

\* A mutant of CzFirstExp: the table is filled from the squares on.
CzFirstExpSquares == 3 - 1

\* The first exponent the constructor fills.
CzFirstExp == 3

RECURSIVE CzLoopZ(_, _, _, _, _)
\* The inner loop of the constructor, from exponent z on.
CzLoopZ(t, c, z, maxp, mod) ==
  IF z > maxp THEN t
  ELSE LET val == CzVal(c, z, mod)
       IN  CzLoopZ([t EXCEPT !.vals_[c][z] = val,
                             !.exists_ = CzMark(t.exists_, z, val)],
                   c, z + 1, maxp, mod)

RECURSIVE CzLoopC(_, _, _, _, _)
\* The outer loop of the constructor, from base c on: vals_[c] is resized to
\* maxp+1 zeroes and then filled from the first exponent.
CzLoopC(t, c, maxb, maxp, mod) ==
  IF c > maxb THEN t
  ELSE CzLoopC(CzLoopZ([t EXCEPT !.vals_[c] = [z \in 0..maxp |-> 0]],
                       c, CzFirstExp, maxp, mod),
               c + 1, maxb, maxp, mod)

\* cz::cz: vals_ is resized to maxb+1 empty rows and exists_ to the whole
\* uint32_t range, all false; the loops fill them; mod_ is set last.
cz(maxb, maxp, mod) ==
  LET t0 == [vals_   |-> [c \in 0..maxb |-> <<>>],
             exists_ |-> [v \in 0..UINT32_MAX |-> FALSE],
             mod_    |-> 0]
  IN  [CzLoopC(t0, 1, maxb, maxp, mod) EXCEPT !.mod_ = mod]

\* cz::get on arguments the table holds.
CzGet(t, c, z) == t.vals_[c][z]

\* cz::exists.
CzExists(t, val) == t.exists_[val]

\* cz::mod.
CzMod(t) == t.mod_

\* The bounds a table was built with, read off the sizes of its vectors.
CzMaxb(t) == Cardinality(DOMAIN t.vals_) - 1
CzMaxp(t) == Cardinality(DOMAIN t.vals_[1]) - 1

\* What cz::get can do on any arguments: an assertion failure for c <= 0 or
\* z <= 2, the stored value in range, and past the end of a vector an
\* undefined read (any value, or a crash).
CzGetOutcomes(t, c, z) ==
  IF c <= 0 \/ z <= 2 THEN {ABORT}
  ELSE IF c \in DOMAIN t.vals_ /\ z \in DOMAIN t.vals_[c] THEN {CzGet(t, c, z)}
  ELSE (0..UINT32_MAX) \cup {ABORT}

(* --------------------- the boundary: cz_* calls ------------------------ *)

CzCall(op, c, z, v, ret, flag) ==
  [op |-> op, c |-> c, z |-> z, v |-> v, ret |-> ret, flag |-> flag]

cz_make(maxb, maxp, mod) ==
  /\ ~aborted
  /\ czp = NULL
  /\ czp' = <<cz(maxb, maxp, mod)>>
  /\ last' = CzCall("cz_make", maxb, maxp, mod, 0, FALSE)
  /\ UNCHANGED <<axbyp, workp, aborted, yielded, pts, slice, pairs, thr, returned>>

cz_get(c, z) ==
  /\ ~aborted
  /\ czp # NULL
  /\ \E out \in CzGetOutcomes(czp[1], c, z) :
       /\ last' = CzCall("cz_get", c, z, 0, out, FALSE)
       /\ aborted' = (out = ABORT)
  /\ UNCHANGED <<czp, axbyp, workp, yielded, pts, slice, pairs, thr, returned>>

cz_exists(val) ==
  /\ ~aborted
  /\ czp # NULL
  /\ last' = CzCall("cz_exists", 0, 0, val, 0, CzExists(czp[1], val))
  /\ UNCHANGED <<czp, axbyp, workp, aborted, yielded, pts, slice, pairs, thr, returned>>

cz_free ==
  /\ ~aborted
  /\ czp # NULL
  /\ czp' = NULL
  /\ last' = CzCall("cz_free", 0, 0, 0, 0, FALSE)
  /\ UNCHANGED <<axbyp, workp, aborted, yielded, pts, slice, pairs, thr, returned>>

\* The lookups tried on the live table: every (c, z) in its range, and one
\* pair for each way of leaving it (c = 0, z = 2, c past maxb, z past maxp).
CzGetInputs ==
  IF czp = NULL THEN {}
  ELSE LET maxb == CzMaxb(czp[1])
           maxp == CzMaxp(czp[1])
       IN  ((1..maxb) \X (3..maxp))
             \cup {<<0, 3>>, <<1, 2>>, <<maxb + 1, 3>>, <<1, maxp + 1>>}

InitCz ==
  /\ czp = NULL
  /\ axbyp = NULL
  /\ workp = NULL
  /\ last = CzCall("none", 0, 0, 0, 0, FALSE)
  /\ aborted = FALSE
  /\ yielded = <<>>
  /\ pts = <<>>
  /\ slice = NoSlice
  /\ pairs = {}
  /\ thr = NoSearches
  /\ returned = <<>>

NextCz ==
  \/ \E maxb \in 1..MaxBase, maxp \in 3..MaxExp, mod \in 1..UINT32_MAX :
       cz_make(maxb, maxp, mod)
  \/ \E g \in CzGetInputs : cz_get(g[1], g[2])
  \/ \E val \in 0..UINT32_MAX : cz_exists(val)
  \/ cz_free

SpecCz == InitCz /\ [][NextCz]_vars

(* ----------------------------- class axby ------------------------------ *)

\* The cursor's fields are C ints. The slices modelled (a up to the largest
\* maxb, exponents up to MaxExp) keep them far below INT_MAX, so they are
\* modelled as unbounded integers.

\* axby::point.
point(a, x, b, y) == [a |-> a, x |-> x, b |-> b, y |-> y]

\* A mutant of axby: the constructor forgets to step the cursor back.
axbyNoStepBack(maxb, maxp, a) ==
  [maxb_ |-> maxb, maxp_ |-> maxp, p_ |-> point(a, 3, 1, 3), a_dim_ |-> a]

\* axby::axby: the cursor starts at (a, 3, 1, 3) and y is stepped back by one.
axby(maxb, maxp, a) ==
  [maxb_ |-> maxb, maxp_ |-> maxp, p_ |-> point(a, 3, 1, 3 - 1), a_dim_ |-> a]

\* A mutant of AxbyExhausted: b runs up to maxb_, not up to a.
AxbyExhaustedAtMaxb(e) == e.p_.b > e.maxb_

\* if (p_.b > p_.a): b has rolled over.
AxbyExhausted(e) == e.p_.b > e.p_.a

\* A mutant of AxbyNotCoprime: only a common factor above 2 is pruned.
AxbyNotCoprimeAbove2(e) == gcd(e.p_.a, e.p_.b) > 2

\* else if (gcd(p_.a, p_.b) > 1).
AxbyNotCoprime(e) == gcd(e.p_.a, e.p_.b) > 1

\* A mutant of AxbyRollY: y restarts at 0.
AxbyRollYFromZero(e) == [e EXCEPT !.p_.y = 0, !.p_.x = @ + 1]

\* A mutant of AxbyRollY: y restarts one too high.
AxbyRollYHigh(e) == [e EXCEPT !.p_.y = 4, !.p_.x = @ + 1]

\* p_.y = 3; ++p_.x.
AxbyRollY(e) == [e EXCEPT !.p_.y = 3, !.p_.x = @ + 1]

\* A mutant of AxbyRollX: x is not set back to 3.
AxbyRollXKeepsX(e) == [e EXCEPT !.p_.b = @ + 1]

\* p_.x = 3; p_.b++.
AxbyRollX(e) == [e EXCEPT !.p_.x = 3, !.p_.b = @ + 1]

\* A mutant of AxbyLoop: the gcd test is an if, not a loop: one b is skipped
\* at most.
AxbyLoopOnce(e) ==
  IF AxbyExhausted(e) THEN [e |-> [e EXCEPT !.p_.a = @ + 1], done |-> TRUE]
  ELSE IF AxbyNotCoprime(e)
       THEN LET f == [e EXCEPT !.p_.b = @ + 1]
            IN  IF AxbyExhausted(f)
                THEN [e |-> [f EXCEPT !.p_.a = @ + 1], done |-> TRUE]
                ELSE [e |-> f, done |-> FALSE]
       ELSE [e |-> e, done |-> FALSE]

RECURSIVE AxbyLoop(_)
\* for (;;): b past a bumps p_.a and signals done; a b with a common factor is
\* skipped; the first coprime b ends the loop.
AxbyLoop(e) ==
  IF AxbyExhausted(e) THEN [e |-> [e EXCEPT !.p_.a = @ + 1], done |-> TRUE]
  ELSE IF AxbyNotCoprime(e) THEN AxbyLoop([e EXCEPT !.p_.b = @ + 1])
  ELSE [e |-> e, done |-> FALSE]

\* axby::next past its assertion: the enumerator after the call and *done; the
\* point returned is a reference to the cursor p_.
AxbyNext(e) ==
  IF e.p_.y + 1 > e.maxp_
  THEN LET e1 == AxbyRollY(e)
       IN  IF e1.p_.x > e.maxp_
           THEN AxbyLoop(AxbyRollX(e1))
           ELSE [e |-> e1, done |-> FALSE]
  ELSE [e |-> [e EXCEPT !.p_.y = @ + 1], done |-> FALSE]

\* A mutant of AxbyNextAsserts: next checks nothing.
AxbyNextUnchecked(e) == TRUE

\* assert(p_.a == a_dim_).
AxbyNextAsserts(e) == e.p_.a = e.a_dim_

(* -------------------- the boundary: axby_* calls ----------------------- *)

AxbyCall(op, done, pt) == [op |-> op, done |-> done, pt |-> pt]

\* axby_make: valid constructor arguments (maxb > 0, maxp > 2, a > 0).
AxbyMake(maxb, maxp, a) ==
  /\ ~aborted
  /\ axbyp = NULL
  /\ axbyp' = <<axby(maxb, maxp, a)>>
  /\ last' = AxbyCall("axby_make", FALSE, point(a, maxp, maxb, 0))
  /\ yielded' = <<>>
  /\ UNCHANGED <<czp, workp, aborted, pts, thr, returned>>

\* axby_next: the cursor is copied out and done returned; the call aborts
\* on the assertion once the enumerator has signalled done.
AxbyNextCall ==
  /\ ~aborted
  /\ axbyp # NULL
  /\ IF AxbyNextAsserts(axbyp[1])
     THEN LET r == AxbyNext(axbyp[1])
          IN  /\ axbyp' = <<r.e>>
              /\ last' = AxbyCall("axby_next", r.done, r.e.p_)
              /\ yielded' = IF r.done THEN yielded ELSE Append(yielded, r.e.p_)
              /\ UNCHANGED aborted
     ELSE /\ aborted' = TRUE
          /\ last' = AxbyCall("axby_next", FALSE, point(0, 0, 0, 0))
          /\ UNCHANGED <<axbyp, yielded>>
  /\ UNCHANGED <<czp, workp, pts, thr, returned>>

AxbyFree ==
  /\ ~aborted
  /\ axbyp # NULL
  /\ axbyp' = NULL
  /\ last' = AxbyCall("axby_free", FALSE, point(0, 0, 0, 0))
  /\ yielded' = <<>>
  /\ UNCHANGED <<czp, workp, aborted, pts, thr, returned>>

axby_make(maxb, maxp, a) == AxbyMake(maxb, maxp, a) /\ UNCHANGED <<slice, pairs>>

axby_next == AxbyNextCall /\ UNCHANGED <<slice, pairs>>

axby_free == AxbyFree /\ UNCHANGED <<slice, pairs>>

\* The maxb given to an enumerator: the bounds of the tables, and the 10 of
\* the scenario maxBase=10, maxExp=5, a=6.
AxbyMaxbInputs == (1..MaxBase) \cup {10}

InitAxby ==
  /\ czp = NULL
  /\ axbyp = NULL
  /\ workp = NULL
  /\ last = AxbyCall("none", FALSE, point(0, 0, 0, 0))
  /\ aborted = FALSE
  /\ yielded = <<>>
  /\ pts = <<>>
  /\ slice = NoSlice
  /\ pairs = {}
  /\ thr = NoSearches
  /\ returned = <<>>

NextAxby ==
  \/ \E maxb \in AxbyMaxbInputs, maxp \in 3..MaxExp :
       \E a \in 1..maxb : axby_make(maxb, maxp, a)
  \/ axby_next
  \/ axby_free

SpecAxby == InitAxby /\ [][NextAxby]_vars

(* ------------- the driver: every slice a = 1..maxb in turn ------------- *)

\* The next slice's enumerator is made.
drive_make ==
  /\ slice.a <= slice.maxb
  /\ AxbyMake(slice.maxb, slice.maxp, slice.a)
  /\ UNCHANGED <<slice, pairs>>

\* next is called until done; every point returned before done is recorded.
drive_next ==
  /\ ~(last.op = "axby_next" /\ last.done)
  /\ AxbyNextCall
  /\ pairs' = IF last'.done THEN pairs
              ELSE pairs \cup {<<last'.pt.a, last'.pt.b>>}
  /\ UNCHANGED slice

\* After done the enumerator is discarded and the driver moves to a + 1.
drive_free ==
  /\ last.op = "axby_next" /\ last.done
  /\ AxbyFree
  /\ slice' = [slice EXCEPT !.a = @ + 1]
  /\ UNCHANGED pairs

InitSlices ==
  /\ czp = NULL
  /\ axbyp = NULL
  /\ workp = NULL
  /\ last = AxbyCall("none", FALSE, point(0, 0, 0, 0))
  /\ aborted = FALSE
  /\ yielded = <<>>
  /\ pts = <<>>
  /\ \E maxb \in AxbyMaxbInputs, maxp \in 3..MaxExp :
       slice = [maxb |-> maxb, maxp |-> maxp, a |-> 1]
  /\ pairs = {}
  /\ thr = NoSearches
  /\ returned = <<>>

NextSlices == drive_make \/ drive_next \/ drive_free

SpecSlices == InitSlices /\ [][NextSlices]_vars

(* ----------------------------- class work ------------------------------ *)

\* The range of uint64_t, scaled as uint32_t is: twice the bits.
UINT64_RANGE == Pow(2, 2 * UintBits)

\* work::work: one table per modulus, in the order given.
work(maxb, maxp, primes) ==
  [maxb_ |-> maxb, maxp_ |-> maxp,
   czs_  |-> [i \in 1..Len(primes) |-> cz(maxb, maxp, primes[i])]]

\* A mutant of WorkVal: the sum is not reduced by the modulus.
WorkValUnreduced(t, pt) ==
  (CzGet(t, pt.a, pt.x) + CzGet(t, pt.b, pt.y)) % UINT64_RANGE

\* A mutant of WorkSum: the sum is formed in uint32_t.
WorkSumNarrow(ax, by, mod) == ((ax + by) % (UINT32_MAX + 1)) % mod

\* (ax + by) % mod with ax, by and the sum uint64_t.
WorkSum(ax, by, mod) == ((ax + by) % UINT64_RANGE) % mod

\* uint64_t val = (ax + by) % czp->mod(), ax and by widened to uint64_t.
WorkVal(t, pt) == WorkSum(CzGet(t, pt.a, pt.x), CzGet(t, pt.b, pt.y), CzMod(t))

RECURSIVE WorkFoundNeedsTable(_, _, _)
\* A mutant of WorkFound: found starts false, and a table must set it.
WorkFoundNeedsTable(w, pt, i) ==
  IF i > Len(w.czs_) THEN Len(w.czs_) > 0
  ELSE IF ~CzExists(w.czs_[i], WorkVal(w.czs_[i], pt) % (UINT32_MAX + 1)) THEN FALSE
  ELSE WorkFoundNeedsTable(w, pt, i + 1)

RECURSIVE WorkFound(_, _, _)
\* The loop over czs_ from table i on: found stays true unless some table's
\* sieve lacks the value, which is narrowed to uint32_t for exists.
WorkFound(w, pt, i) ==
  IF i > Len(w.czs_) THEN TRUE
  ELSE IF ~CzExists(w.czs_[i], WorkVal(w.czs_[i], pt) % (UINT32_MAX + 1)) THEN FALSE
  ELSE WorkFound(w, pt, i + 1)

RECURSIVE WorkLoop(_, _, _)
\* while (!done): r is what the last next call left, the enumerator and done;
\* pt refers to the enumerator's cursor.
WorkLoop(w, r, results) ==
  IF r.done THEN results
  ELSE WorkLoop(w, AxbyNext(r.e),
                IF WorkFound(w, r.e.p_, 1) THEN Append(results, r.e.p_)
                ELSE results)

\* work::do_work for 1 <= a <= maxb_, appending to the vector the caller hands in.
DoWorkInto(w, a, results) ==
  WorkLoop(w, AxbyNext(axby(w.maxb_, w.maxp_, a)), results)

\* work::do_work for 1 <= a <= maxb_: the results appended.
DoWork(w, a) == WorkLoop(w, AxbyNext(axby(w.maxb_, w.maxp_, a)), <<>>)

\* A mutant of WorkFreshResults: the vector outlives the call.
WorkStaleResults(prev) == prev

\* std::vector<point> results; in work_do_work: a new, empty vector each call,
\* whatever the previous call's vector (prev) held.
WorkFreshResults(prev) == <<>>

\* A mutant of WorkCopyOut: as many results as fit are copied.
WorkCopyOutPartial(buf, results, len) ==
  [i \in 1..Len(buf) |-> IF i <= Len(results) THEN results[i] ELSE buf[i]]

\* if (results.size() <= len) pts[i] = results[i] for every i: the caller's
\* buffer after the call.
WorkCopyOut(buf, results, len) ==
  IF Len(results) <= len
  THEN [i \in 1..Len(buf) |-> IF i <= Len(results) THEN results[i] ELSE buf[i]]
  ELSE buf

(* -------------------- the boundary: work_* calls ----------------------- *)

WorkCall(op, a, len, ret, results) ==
  [op |-> op, a |-> a, len |-> len, ret |-> ret, results |-> results]

\* What a slot of the caller's buffer holds before the call.
Garbage == point(0, 0, 0, 0)

\* A buffer of capacity len the caller has not filled.
FreshBuffer(len) == [i \in 1..len |-> Garbage]

work_make(maxb, maxp, primes) ==
  /\ ~aborted
  /\ workp = NULL
  /\ workp' = <<work(maxb, maxp, primes)>>
  /\ last' = WorkCall("work_make", 0, 0, 0, <<>>)
  /\ pts' = <<>>
  /\ UNCHANGED <<czp, axbyp, aborted, yielded, slice, pairs, thr, returned>>

\* A mutant of work_do_work: the search keeps the slice it ran in maxb_.
work_do_work_KeepsSlice(a) ==
  /\ ~aborted
  /\ workp # NULL
  /\ a <= workp[1].maxb_
  /\ workp' = <<[workp[1] EXCEPT !.maxb_ = a]>>
  /\ LET results == DoWorkInto(workp[1], a, WorkFreshResults(last.results))
     IN  \E len \in 0..MaxLen :
           /\ pts' = WorkCopyOut(FreshBuffer(len), results, len)
           /\ last' = WorkCall("work_do_work", a, len, Len(results), results)
  /\ UNCHANGED <<czp, axbyp, aborted, yielded, slice, pairs, thr, returned>>

\* work_do_work for a slice 1 <= a <= maxb_ of the orchestrator, on a fresh
\* buffer of any capacity len up to MaxLen.
work_do_work(a) ==
  /\ ~aborted
  /\ workp # NULL
  /\ a <= workp[1].maxb_
  /\ LET results == DoWorkInto(workp[1], a, WorkFreshResults(last.results))
     IN  \E len \in 0..MaxLen :
           /\ pts' = WorkCopyOut(FreshBuffer(len), results, len)
           /\ last' = WorkCall("work_do_work", a, len, Len(results), results)
  /\ UNCHANGED <<czp, axbyp, workp, aborted, yielded, slice, pairs, thr, returned>>

work_free ==
  /\ ~aborted
  /\ workp # NULL
  /\ workp' = NULL
  /\ last' = WorkCall("work_free", 0, 0, 0, <<>>)
  /\ pts' = <<>>
  /\ UNCHANGED <<czp, axbyp, aborted, yielded, slice, pairs, thr, returned>>

\* The moduli given to an orchestrator.
WorkModuli == {2, 3, UINT32_MAX}

\* The lists of moduli given to an orchestrator: none, one or two.
WorkPrimes ==
  {<<>>} \cup {<<m>> : m \in WorkModuli}
         \cup {<<m, n>> : m \in WorkModuli, n \in WorkModuli}

InitWork ==
  /\ czp = NULL
  /\ axbyp = NULL
  /\ workp = NULL
  /\ last = WorkCall("none", 0, 0, 0, <<>>)
  /\ aborted = FALSE
  /\ yielded = <<>>
  /\ pts = <<>>
  /\ slice = NoSlice
  /\ pairs = {}
  /\ thr = NoSearches
  /\ returned = <<>>

NextWork ==
  \/ \E maxb \in 1..WorkMaxBase, maxp \in 3..MaxExp, primes \in WorkPrimes :
       work_make(maxb, maxp, primes)
  \/ \E a \in 1..WorkMaxBase : work_do_work(a)
  \/ work_free

SpecWork == InitWork /\ [][NextWork]_vars

(* ------------- repeated searches on one orchestrator ------------------- *)

\* The number of work_do_work calls made on the one orchestrator.
MaxCalls == 3

\* The lists of moduli of the orchestrators searched repeatedly or concurrently.
SearchPrimes == {<<>>, <<2>>, <<UINT32_MAX>>, <<3, UINT32_MAX>>}

\* work_do_work on the orchestrator built once, with a buffer of capacity
\* MaxLen; every call and what it returned is kept in returned.
repeat_do_work(a) ==
  /\ ~aborted
  /\ workp # NULL
  /\ a <= workp[1].maxb_
  /\ Len(returned) < MaxCalls
  /\ LET results == DoWorkInto(workp[1], a, WorkFreshResults(last.results))
     IN  /\ pts' = WorkCopyOut(FreshBuffer(MaxLen), results, MaxLen)
         /\ last' = WorkCall("work_do_work", a, MaxLen, Len(results), results)
         /\ returned' = Append(returned, <<a, results>>)
  /\ UNCHANGED <<czp, axbyp, workp, aborted, yielded, slice, pairs, thr>>

InitRepeat ==
  /\ czp = NULL
  /\ axbyp = NULL
  /\ \E maxb \in 1..WorkMaxBase, maxp \in 3..MaxExp, primes \in SearchPrimes :
       workp = <<work(maxb, maxp, primes)>>
  /\ last = WorkCall("work_make", 0, 0, 0, <<>>)
  /\ aborted = FALSE
  /\ yielded = <<>>
  /\ pts = <<>>
  /\ slice = NoSlice
  /\ pairs = {}
  /\ thr = NoSearches
  /\ returned = <<>>

NextRepeat == \E a \in 1..WorkMaxBase : repeat_do_work(a)

SpecRepeat == InitRepeat /\ [][NextRepeat]_vars

(* ------------- do_work step by step, on several threads ---------------- *)

\* A mutant of SearchCursor: one enumerator serves every thread.
SearchCursorShared(th, t) ==
  IF th["t1"].pts # NULL THEN th["t1"].pts[1] ELSE th[t].pts[1]

\* axby pts(maxb_, maxp_, a): the enumerator is a local of the invocation.
SearchCursor(th, t) == th[t].pts[1]

\* A mutant of SearchAfterNext: the loop tests done one round late.
SearchAfterNextLate(s, r) ==
  [s EXCEPT !.pts = <<r.e>>, !.done = r.done,
            !.pc = IF s.done THEN "done" ELSE "loop",
            !.found = TRUE, !.i = 1,
            !.seen = IF r.done THEN @ ELSE Append(@, r.e.p_)]

\* The locals of an invocation after a next call that left r: the loop is
\* entered again with found = true and i = 0 (table 1), or left at done.
SearchAfterNext(s, r) ==
  [s EXCEPT !.pts = <<r.e>>, !.done = r.done,
            !.pc = IF r.done THEN "done" ELSE "loop",
            !.found = TRUE, !.i = 1,
            !.seen = IF r.done THEN @ ELSE Append(@, r.e.p_)]

\* The slices a thread may start on: those no other thread has taken.
SearchInputs(t) ==
  IF workp = NULL THEN {}
  ELSE {a \in 1..workp[1].maxb_ : \A u \in Threads \ {t} : thr[u].a # a}

\* do_work(a) up to the while: the enumerator is built and next called once.
SearchBegin(t, a) ==
  /\ ~aborted
  /\ workp # NULL
  /\ thr[t].pc = "idle"
  /\ LET e == axby(workp[1].maxb_, workp[1].maxp_, a)
     IN  thr' = [thr EXCEPT
                  ![t] = SearchAfterNext([IdleSearch EXCEPT !.a = a], AxbyNext(e))]
  /\ UNCHANGED <<czp, axbyp, workp, last, aborted, yielded, pts, slice, pairs, returned>>

\* A thread calls do_work on a slice no other thread has taken.
search_begin(t, a) == a \in SearchInputs(t) /\ SearchBegin(t, a)

\* One round of the for loop: the two lookups in table i, the sum, the sieve.
\* A lookup outside the table is an assertion failure or an undefined read.
search_filter(t) ==
  /\ ~aborted
  /\ workp # NULL
  /\ thr[t].pc = "loop"
  /\ thr[t].found
  /\ thr[t].i <= Len(workp[1].czs_)
  /\ LET tb == workp[1].czs_[thr[t].i]
         pt == SearchCursor(thr, t).p_
     IN  \E ax \in CzGetOutcomes(tb, pt.a, pt.x), by \in CzGetOutcomes(tb, pt.b, pt.y) :
           IF ax = ABORT \/ by = ABORT
           THEN /\ aborted' = TRUE
                /\ UNCHANGED thr
           ELSE LET val == WorkSum(ax, by, CzMod(tb)) % (UINT32_MAX + 1)
                IN  /\ thr' = [thr EXCEPT ![t].val = val,
                                          ![t].found = CzExists(tb, val),
                                          ![t].i = IF CzExists(tb, val) THEN @ + 1 ELSE @]
                    /\ UNCHANGED aborted
  /\ UNCHANGED <<czp, axbyp, workp, last, yielded, pts, slice, pairs, returned>>

\* The end of the while body: the point is appended if found, and next is
\* called; do_work returns when next signals done.
search_advance(t) ==
  /\ ~aborted
  /\ workp # NULL
  /\ thr[t].pc = "loop"
  /\ ~thr[t].found \/ thr[t].i > Len(workp[1].czs_)
  /\ LET e == SearchCursor(thr, t)
         s == [thr[t] EXCEPT !.results = IF thr[t].found THEN Append(@, e.p_) ELSE @]
     IN  IF AxbyNextAsserts(e)
         THEN /\ thr' = [thr EXCEPT ![t] = SearchAfterNext(s, AxbyNext(e))]
              /\ UNCHANGED aborted
         ELSE /\ thr' = [thr EXCEPT ![t] = s]
              /\ aborted' = TRUE
  /\ UNCHANGED <<czp, axbyp, workp, last, yielded, pts, slice, pairs, returned>>

\* The orchestrator is built once, before any thread calls do_work.
InitSearch == InitRepeat

NextSearch ==
  \E t \in Threads :
    \/ \E a \in 1..WorkMaxBase : search_begin(t, a)
    \/ search_filter(t)
    \/ search_advance(t)

SpecSearch == InitSearch /\ [][NextSearch]_vars

(* ------------------- one do_work call, run to its end ------------------ *)

\* The slices one caller may ask for: every slice of the orchestrator, and on
\* the smallest orchestrator (maxb = 1, maxp = 3) the slice one past maxb_,
\* which stands for the calls with a > maxb_.
RunInputs ==
  IF workp = NULL THEN {}
  ELSE (1..workp[1].maxb_)
         \cup (IF workp[1].maxb_ = 1 /\ workp[1].maxp_ = 3 THEN {2} ELSE {})

\* The one caller calls do_work(a).
run_begin(a) == a \in RunInputs /\ SearchBegin("t1", a)

NextRun ==
  \/ \E a \in 1..(WorkMaxBase + 1) : run_begin(a)
  \/ search_filter("t1")
  \/ search_advance("t1")

\* do_work is sequential code on one thread: once called it keeps running, so
\* each of its steps is taken when it stays enabled.
FairSpecRun ==
  /\ InitSearch
  /\ [][NextRun]_vars
  /\ WF_vars(search_filter("t1"))
  /\ WF_vars(search_advance("t1"))

(* ------------------------ reference definitions ------------------------ *)

\* a and b have no common factor above 1.
Coprime(a, b) == \A d \in 2..b : ~(a % d = 0 /\ b % d = 0)

\* The points of the slice a: b in [1,a] coprime to a, x and y in [3,maxp].
ValidPoints(a, maxp) ==
  {point(a, x, b, y) : x \in 3..maxp, y \in 3..maxp,
                       b \in {c \in 1..a : Coprime(a, c)}}

\* p comes before q in the lexicographic order of (b, x, y).
LexLess(p, q) ==
  \/ p.b < q.b
  \/ p.b = q.b /\ p.x < q.x
  \/ p.b = q.b /\ p.x = q.x /\ p.y < q.y

\* The live enumerator has signalled done.
AxbyDone == axbyp # NULL /\ last.op = "axby_next" /\ last.done /\ ~aborted

\* The residues of the powers in the range of a table.
PowerResidues(maxb, maxp, m) ==
  {Pow(c, z) % m : c \in 1..maxb, z \in 3..maxp}

RECURSIVE SortPoints(_)
\* The points of S in ascending lexicographic order of (b, x, y).
SortPoints(S) ==
  IF S = {} THEN <<>>
  ELSE LET first == CHOOSE p \in S : \A q \in S \ {p} : LexLess(p, q)
       IN  <<first>> \o SortPoints(S \ {first})

\* The moduli of an orchestrator's tables.
WorkModuliOf(w) == {CzMod(w.czs_[i]) : i \in 1..Len(w.czs_)}

\* a^x + b^y leaves, modulo every modulus of w, the residue of a power c^z
\* with c in [1,maxBase] and z in [3,maxExp].
PassesEveryModulus(w, pt) ==
  \A m \in WorkModuliOf(w) :
    ((Pow(pt.a, pt.x) + Pow(pt.b, pt.y)) % m) \in PowerResidues(w.maxb_, w.maxp_, m)

\* What search(a) is to return: the enumeration of the slice a, in order,
\* without the points that fail for some modulus.
ExpectedResults(w, a) ==
  LET Keep(pt) == PassesEveryModulus(w, pt)
  IN  SelectSeq(SortPoints(ValidPoints(a, w.maxp_)), Keep)

\* The last call was a search on the live orchestrator.
Searched == workp # NULL /\ last.op = "work_do_work"

(* ------------------------------ claims --------------------------------- *)

\* C1: for every table built with maxBase >= 1, maxExp > 2 and modulus m > 0,
\* and every base c in [1,maxBase] and exponent z in [3,maxExp], get(c,z) is
\* c^z mod m and exists(get(c,z)) is true.
C1_GetIsPowerResidue ==
  czp # NULL =>
    LET t == czp[1] IN
    \A c \in 1..CzMaxb(t), z \in 3..CzMaxp(t) :
      /\ \A out \in CzGetOutcomes(t, c, z) : out = Pow(c, z) % CzMod(t)
      /\ CzExists(t, CzGet(t, c, z))

\* A lookup in range has returned a residue that is not the base itself.
C1_Witness ==
  /\ last.op = "cz_get"
  /\ czp # NULL
  /\ last.c \in 2..CzMaxb(czp[1])
  /\ last.z \in 3..CzMaxp(czp[1])
  /\ last.ret = Pow(last.c, last.z) % CzMod(czp[1])
  /\ last.ret # last.c
  /\ last.ret > 1

\* C2 as stated: over the whole sieve domain, exists(v) is true iff some
\* (c,z) in range has c^z congruent to v modulo m.
C2_SieveIffCongruent ==
  czp # NULL =>
    LET t == czp[1] IN
    \A v \in 0..UINT32_MAX :
      CzExists(t, v) <=>
        \E c \in 1..CzMaxb(t), z \in 3..CzMaxp(t) :
          Pow(c, z) % CzMod(t) = v % CzMod(t)

\* C2 as amended: over the whole sieve domain, exists(v) is true iff v is the
\* residue c^z mod m of some (c,z) in range; a value v >= m is never marked,
\* whatever it is congruent to.
C2_SieveIffResidue ==
  czp # NULL =>
    LET t == czp[1] IN
    \A v \in 0..UINT32_MAX :
      /\ CzExists(t, v) <=>
           \E c \in 1..CzMaxb(t), z \in 3..CzMaxp(t) : Pow(c, z) % CzMod(t) = v
      /\ v >= CzMod(t) => ~CzExists(t, v)

\* exists was asked about a value v >= m that is congruent to a power residue,
\* and answered false.
C2_Witness ==
  /\ last.op = "cz_exists"
  /\ czp # NULL
  /\ last.v >= CzMod(czp[1])
  /\ (last.v % CzMod(czp[1])) \in
       PowerResidues(CzMaxb(czp[1]), CzMaxp(czp[1]), CzMod(czp[1]))
  /\ ~last.flag

\* The table of the scenario modulus=7, maxBase=4, maxExp=4 is live.
C3_Scenario ==
  /\ czp # NULL
  /\ CzMaxb(czp[1]) = 4
  /\ CzMaxp(czp[1]) = 4
  /\ CzMod(czp[1]) = 7

\* C3: over the residues [0,m), exists(r) is true exactly for the r in
\* { c^z mod m : 1 <= c <= maxBase, 3 <= z <= maxExp } and false for every
\* other residue; for modulus=7, maxBase=4, maxExp=4 that set is {1,2,4,6}.
C3_SieveExactOverResidues ==
  czp # NULL =>
    LET t == czp[1]
        marked == {r \in 0..(CzMod(t) - 1) : CzExists(t, r)}
    IN  /\ marked = PowerResidues(CzMaxb(t), CzMaxp(t), CzMod(t))
        /\ C3_Scenario => marked = {1, 2, 4, 6}

\* In the scenario, exists answered false for the residue 5 outside the set.
C3_Witness ==
  /\ C3_Scenario
  /\ last.op = "cz_exists"
  /\ last.v = 5
  /\ ~last.flag

\* C4: every point (a',x,b,y) returned by next with done = false has a' = a,
\* 1 <= b <= a, gcd(a,b) = 1 and 3 <= x,y <= maxExp: a b that is not coprime
\* to a is skipped, never yielded.
C4_YieldedPointsValid ==
  (axbyp # NULL /\ ~aborted) =>
    LET e == axbyp[1] IN
    \A i \in 1..Len(yielded) :
      LET q == yielded[i] IN
      /\ q.a = e.a_dim_
      /\ 1 <= q.b /\ q.b <= q.a
      /\ Coprime(q.a, q.b)
      /\ 3 <= q.x /\ q.x <= e.maxp_
      /\ 3 <= q.y /\ q.y <= e.maxp_

\* next has just returned, with done = false, a point whose b it reached by
\* skipping a b that is not coprime to a.
C4_Witness ==
  /\ axbyp # NULL
  /\ last.op = "axby_next"
  /\ ~last.done
  /\ ~aborted
  /\ last.pt = yielded[Len(yielded)]
  /\ last.pt.b >= 3
  /\ ~Coprime(last.pt.a, last.pt.b - 1)

\* C5: the points yielded for a fixed a start with (a,3,1,3), come in strictly
\* ascending lexicographic order of (b, x, y), are all points of the slice,
\* and when done is signalled they are all of them, each once.
C5_EnumerationOrder ==
  (axbyp # NULL /\ ~aborted) =>
    LET e == axbyp[1] IN
    /\ Len(yielded) >= 1 => yielded[1] = point(e.a_dim_, 3, 1, 3)
    /\ \A i \in 1..(Len(yielded) - 1) : LexLess(yielded[i], yielded[i + 1])
    /\ \A i \in 1..Len(yielded) : yielded[i] \in ValidPoints(e.a_dim_, e.maxp_)
    /\ AxbyDone =>
         /\ {yielded[i] : i \in 1..Len(yielded)} = ValidPoints(e.a_dim_, e.maxp_)
         /\ Len(yielded) = Cardinality(ValidPoints(e.a_dim_, e.maxp_))
    /\ \A i \in 1..(Len(yielded) - 1) :
         \* y moves fastest, then x, then b
         LET q == yielded[i]
             r == yielded[i + 1]
         IN  \/ r.b = q.b /\ r.x = q.x /\ r.y = q.y + 1
             \/ r.b = q.b /\ r.x = q.x + 1 /\ q.y = e.maxp_ /\ r.y = 3
             \/ r.b > q.b /\ q.x = e.maxp_ /\ q.y = e.maxp_ /\ r.x = 3 /\ r.y = 3

\* An enumeration over several b, x and y has run to done.
C5_Witness ==
  /\ AxbyDone
  /\ axbyp[1].maxp_ >= 4
  /\ Len(yielded) >= 8
  /\ yielded[Len(yielded)].b > 1

\* The number of yielded points whose (b, y) is the given one.
TimesYielded(b, y) ==
  Cardinality({i \in 1..Len(yielded) : yielded[i].b = b /\ yielded[i].y = y})

\* C6 as stated: in the full enumeration for a, every (b,y) with b valid and
\* y in [3,maxExp] appears exactly once among the yielded points.
C6_EachByOnce ==
  AxbyDone =>
    LET e == axbyp[1] IN
    \A b \in {c \in 1..e.a_dim_ : Coprime(e.a_dim_, c)}, y \in 3..e.maxp_ :
      TimesYielded(b, y) = 1

\* C6 as amended: in the full enumeration for a, every (b,y) with b valid and
\* y in [3,maxExp] appears exactly once for each x in [3,maxExp], so
\* maxExp - 2 times among the yielded points.
C6_EachByOncePerX ==
  AxbyDone =>
    LET e == axbyp[1] IN
    \A b \in {c \in 1..e.a_dim_ : Coprime(e.a_dim_, c)}, y \in 3..e.maxp_ :
      /\ TimesYielded(b, y) = e.maxp_ - 2
      /\ \A x \in 3..e.maxp_ :
           Cardinality({i \in 1..Len(yielded) :
                          yielded[i] = point(e.a_dim_, x, b, y)}) = 1

\* A full enumeration with more than one exponent x and several valid b.
C6_Witness ==
  /\ AxbyDone
  /\ axbyp[1].maxp_ >= 4
  /\ axbyp[1].a_dim_ >= 3
  /\ TimesYielded(2, 3) = axbyp[1].maxp_ - 2

\* The enumerator of the scenario maxBase=10, maxExp=5, a=6 is live.
C7_Scenario ==
  /\ axbyp # NULL
  /\ ~aborted
  /\ axbyp[1].maxb_ = 10
  /\ axbyp[1].maxp_ = 5
  /\ axbyp[1].a_dim_ = 6

\* The b of the points yielded so far.
YieldedBs == {yielded[i].b : i \in 1..Len(yielded)}

\* C7 as stated: with maxBase=10, maxExp=5 and a=6 no point with b in {2,3,4}
\* is yielded, and points with b=1, b=5 and b=6 are.
C7_ScenarioYieldsSix ==
  C7_Scenario =>
    /\ YieldedBs \cap {2, 3, 4} = {}
    /\ AxbyDone => {1, 5, 6} \subseteq YieldedBs

\* C7 as amended: with maxBase=10, maxExp=5 and a=6 no point with b in
\* {2,3,4} and none with b=6 (gcd(6,6)=6) is yielded, and points with b=1
\* and with b=5 are.
C7_ScenarioYieldsOneAndFive ==
  C7_Scenario =>
    /\ YieldedBs \cap {2, 3, 4, 6} = {}
    /\ AxbyDone => YieldedBs = {1, 5}

\* The scenario's enumeration has run to done.
C7_Witness ==
  /\ C7_Scenario
  /\ AxbyDone
  /\ Len(yielded) = 18

\* Every slice has been enumerated.
SlicesDone == slice.a > slice.maxb

\* C8: over the enumerations of all slices a in [1,maxBase], no pair of
\* distinct bases is yielded from both slices: coprime p > q are yielded by
\* the slice a = p (as b = q) and never by the slice a = q.
C8_PairFromLargerSliceOnly ==
  /\ \A pq \in pairs : pq[1] # pq[2] => <<pq[2], pq[1]>> \notin pairs
  /\ \A p \in 1..slice.maxb, q \in 1..slice.maxb :
       (p > q /\ Coprime(p, q)) =>
         /\ <<q, p>> \notin pairs
         /\ slice.a > p => <<p, q>> \in pairs

\* All slices up to a maxBase >= 4 have been enumerated, the pair {4,3} from
\* the slice a = 4.
C8_Witness ==
  /\ SlicesDone
  /\ slice.maxb >= 4
  /\ <<4, 3>> \in pairs
  /\ <<3, 2>> \in pairs

\* C9: for any a in [1,maxBase], search(a) returns exactly the points of the
\* enumeration of a, in enumeration order, whose a^x + b^y is modulo every
\* modulus m_i in { c^z mod m_i : 1 <= c <= maxBase, 3 <= z <= maxExp }: no
\* point failing for a modulus is returned, no point passing all is dropped.
C9_SearchIsFilteredEnumeration ==
  Searched => last.results = ExpectedResults(workp[1], last.a)

\* A search over two moduli has returned some points and dropped others.
C9_Witness ==
  /\ Searched
  /\ Len(workp[1].czs_) = 2
  /\ Len(last.results) >= 2
  /\ Len(last.results) < Cardinality(ValidPoints(last.a, workp[1].maxp_))

\* The last search found more results than the caller's buffer holds.
Overflowed == Searched /\ last.ret > last.len

\* C10: when a search for a finds more results than the capacity len of the
\* caller's buffer, no slot of the buffer is written and the value returned is
\* the true result count, which a following call for the same a with a buffer
\* of sufficient capacity returns too.
C10_OverflowWritesNothing ==
  /\ [](Overflowed =>
          /\ pts = FreshBuffer(last.len)
          /\ last.ret = Len(ExpectedResults(workp[1], last.a)))
  /\ [][(/\ Overflowed
         /\ Searched'
         /\ last'.a = last.a
         /\ last'.ret <= last'.len)
        => (/\ last'.ret = last.ret
            /\ SubSeq(pts', 1, last'.ret) = ExpectedResults(workp[1], last.a))]_vars

\* A search has overflowed a buffer that had room for some of its results.
C10_Witness ==
  /\ Overflowed
  /\ last.len >= 1
  /\ Len(workp[1].czs_) >= 1
  /\ last.ret < Cardinality(ValidPoints(last.a, workp[1].maxp_))

\* C11: searching the same a twice on one orchestrator, with any searches for
\* other values of a in between, returns the same result sequence both times.
C11_RepeatedSearchSameResults ==
  \A i \in 1..Len(returned), j \in 1..Len(returned) :
    returned[i][1] = returned[j][1] => returned[i][2] = returned[j][2]

\* A slice with a non-empty result searched, another slice with another
\* result searched, and the first slice searched again.
C11_Witness ==
  /\ Len(returned) = MaxCalls
  /\ returned[1][1] = returned[MaxCalls][1]
  /\ returned[2][1] # returned[1][1]
  /\ returned[1][2] # <<>>
  /\ returned[2][2] # returned[1][2]

\* C12: every get(c, z) with c < 1, c > maxBase, z < 3 or z > maxExp fails
\* with an assertion-style fault and returns no value. The code asserts only
\* c > 0 and z > 2: past maxb or maxp it reads beyond a vector.
C12_OutOfRangeGetFaults ==
  (/\ czp # NULL
   /\ last.op = "cz_get"
   /\ ~(last.c \in 1..CzMaxb(czp[1]) /\ last.z \in 3..CzMaxp(czp[1])))
    => (aborted /\ last.ret = ABORT)

\* C13: when searches for distinct a run concurrently on one orchestrator,
\* their steps interleaved in any way, each returns exactly what it returns
\* run alone.
C13_ConcurrentSearchAsAlone ==
  \A t \in Threads :
    thr[t].pc = "done" => thr[t].results = DoWork(workp[1], thr[t].a)

\* Two searches in progress at once, and then both done with different,
\* non-empty results.
C13_Witness ==
  /\ thr["t1"].pc = "done"
  /\ thr["t2"].pc = "done"
  /\ thr["t1"].a # thr["t2"].a
  /\ thr["t1"].results # <<>>
  /\ thr["t2"].results # <<>>
  /\ Len(thr["t1"].results) < Len(thr["t1"].seen)
  /\ thr["t1"].results # thr["t2"].results

\* C14: a search call leaves the orchestrator as it was: the residues, sieve
\* and modulus of every table, the list of tables and the two bounds.
C14_SearchLeavesOrchestrator ==
  [][(workp # NULL /\ last'.op = "work_do_work") => workp' = workp]_vars

\* A search below the largest slice has run on an orchestrator with two
\* tables and kept some points.
C14_Witness ==
  /\ Searched
  /\ last.a < workp[1].maxb_
  /\ Len(workp[1].czs_) = 2
  /\ last.results # <<>>

\* The number of points of the slice a: N * (maxp - 2)^2, N the number of b
\* in [1, a] coprime to a.
SliceSize(a, maxp) ==
  Cardinality({b \in 1..a : Coprime(a, b)}) * (maxp - 2) * (maxp - 2)

\* The slice asked for is one of the orchestrator's.
RunInRange == thr["t1"].a <= workp[1].maxb_

\* The call in progress or finished has not faulted, and its enumerator has
\* yielded no more than the slice.
RunSound ==
  thr["t1"].pc # "idle" =>
    /\ ~aborted
    /\ Len(thr["t1"].seen) <= SliceSize(thr["t1"].a, workp[1].maxp_)

\* At done the enumerator has yielded exactly the slice.
RunExact ==
  thr["t1"].pc = "done" =>
    Len(thr["t1"].seen) = SliceSize(thr["t1"].a, workp[1].maxp_)

\* C15 as stated: for every a >= 1 (and maxExp >= 3) search(a) runs to
\* completion, the enumerator signalling done after finitely many next calls
\* that yielded exactly N * (maxExp - 2)^2 points. Refuted by a > maxBase on
\* an orchestrator with a table.
C15_EverySearchCompletes ==
  /\ [](RunSound /\ RunExact)
  /\ (thr["t1"].pc = "loop") ~> (thr["t1"].pc = "done")

\* C15, amended: for every a in [1, maxBase] search(a) runs to completion,
\* the enumerator signalling done after finitely many next calls that yielded
\* exactly N * (maxExp - 2)^2 points.
C15_SearchInRangeCompletes ==
  /\ [](RunInRange => RunSound /\ RunExact)
  /\ (RunInRange /\ thr["t1"].pc = "loop") ~> (thr["t1"].pc = "done")

\* A search in range is done on an orchestrator with tables, after a slice of
\* two values of b and several exponents.
C15_Witness ==
  /\ thr["t1"].pc = "done"
  /\ thr["t1"].a <= workp[1].maxb_
  /\ Len(workp[1].czs_) >= 1
  /\ workp[1].maxp_ > 3
  /\ Len(thr["t1"].seen) = 2 * (workp[1].maxp_ - 2) * (workp[1].maxp_ - 2)

\* The table of the last round of thread t's for loop on the point under its
\* cursor, 0 when no round has run on that point.
TestedTable(t) ==
  IF thr[t].pc # "loop" THEN 0
  ELSE IF thr[t].found THEN thr[t].i - 1 ELSE thr[t].i

\* The plain sum of the two residues looked up in that round.
TestedSum(t) ==
  LET tb == workp[1].czs_[TestedTable(t)]
      pt == thr[t].pts[1].p_
  IN  CzGet(tb, pt.a, pt.x) + CzGet(tb, pt.b, pt.y)

\* C16: the value search tests against a table's sieve is the mathematical
\* (get(a,x) + get(b,y)) mod m, for every modulus m up to the top of the
\* unsigned 32-bit range: the sum never wraps modulo 2^32.
C16_TestedValueIsSumModM ==
  \A t \in Threads :
    TestedTable(t) >= 1 =>
      thr[t].val = TestedSum(t) % CzMod(workp[1].czs_[TestedTable(t)])

\* A round on the table of the largest modulus whose sum of residues does not
\* fit the width of a residue, and would test another value if it wrapped.
C16_Witness ==
  \E t \in Threads :
    /\ TestedTable(t) >= 1
    /\ CzMod(workp[1].czs_[TestedTable(t)]) = UINT32_MAX
    /\ TestedSum(t) > UINT32_MAX
    /\ thr[t].val # (TestedSum(t) % (UINT32_MAX + 1)) % UINT32_MAX

\* The largest b in [1, a] coprime to a.
LastB(a) == CHOOSE b \in 1..a :
              Coprime(a, b) /\ \A c \in (b + 1)..a : ~Coprime(a, c)

\* C17: next signals done exactly when the cursor's b has passed a, which
\* happens only after the last valid point (largest coprime b, x = y = maxExp)
\* was yielded; the point returned with done has a bumped to a + 1 and is never
\* appended, so every point of a search(a) result has its a field equal to a.
C17_DoneAfterLastPointOnly ==
  \A t \in Threads :
    thr[t].pc # "idle" =>
      LET s == thr[t]
          p == s.pts[1].p_
          maxp == workp[1].maxp_
      IN  /\ s.done <=> p.b > s.a
          /\ s.done => /\ s.seen # <<>>
                       /\ s.seen[Len(s.seen)] = point(s.a, maxp, LastB(s.a), maxp)
                       /\ p.a = s.a + 1
          /\ ~s.done => p.a = s.a
          /\ \A k \in 1..Len(s.results) :
                s.results[k].a = s.a /\ s.results[k] # p

\* A search of a slice a >= 2 is done, its cursor on a + 1, with some points
\* kept and some dropped.
C17_Witness ==
  \E t \in Threads :
    /\ thr[t].pc = "done"
    /\ thr[t].a >= 2
    /\ thr[t].pts[1].p_.a = thr[t].a + 1
    /\ thr[t].results # <<>>
    /\ Len(thr[t].results) < Len(thr[t].seen)

\* C18: an enumerator that has signalled done cannot be restarted: its
\* cursor's a is a + 1, so a further next call on it fails the assertion
\* p_.a == a_dim_ and no point is yielded after done.
C18_NextAfterDoneFaults ==
  /\ [](AxbyDone => axbyp[1].p_.a = axbyp[1].a_dim_ + 1)
  /\ [][(AxbyDone /\ axbyp' # NULL /\ last' # last)
         => (aborted' /\ yielded' = yielded /\ axbyp' = axbyp)]_vars

\* next was called on an enumerator that had signalled done after yielding a
\* slice of several points.
C18_Witness ==
  /\ aborted
  /\ axbyp # NULL
  /\ last.op = "axby_next"
  /\ axbyp[1].p_.a = axbyp[1].a_dim_ + 1
  /\ Len(yielded) >= 2

\* C19: during search(a) with 1 <= a <= maxBase every table lookup has its
\* base in [1, maxBase] and its exponent in [3, maxExp], and every value
\* handed to exists is below the modulus of the table.
C19_LookupsInRange ==
  /\ ~aborted
  /\ \A t \in Threads :
       thr[t].pc = "loop" =>
         LET pt == thr[t].pts[1].p_
         IN  /\ \A i \in 1..Len(workp[1].czs_) :
                  /\ {pt.a, pt.b} \subseteq 1..CzMaxb(workp[1].czs_[i])
                  /\ {pt.x, pt.y} \subseteq 3..CzMaxp(workp[1].czs_[i])
             /\ TestedTable(t) >= 1 =>
                  thr[t].val < CzMod(workp[1].czs_[TestedTable(t)])

\* The second table has been consulted on the last point of the largest
\* slice, with the largest base and exponents looked up.
C19_Witness ==
  \E t \in Threads :
    /\ TestedTable(t) = 2
    /\ thr[t].a = workp[1].maxb_
    /\ thr[t].a >= 2
    /\ thr[t].pts[1].p_ = point(thr[t].a, workp[1].maxp_, LastB(thr[t].a), workp[1].maxp_)

\* C20: an orchestrator built with an empty list of moduli filters nothing:
\* search(a) returns every point of the enumeration of the slice, in order.
C20_NoModuliReturnsEnumeration ==
  (Searched /\ workp[1].czs_ = <<>>) =>
    /\ last.results = SortPoints(ValidPoints(last.a, workp[1].maxp_))
    /\ last.ret = SliceSize(last.a, workp[1].maxp_)

\* A slice of two values of b and four pairs of exponents has been searched
\* on an orchestrator without tables.
C20_Witness ==
  /\ Searched
  /\ workp[1].czs_ = <<>>
  /\ last.a = 3
  /\ workp[1].maxp_ = 4
  /\ Len(last.results) = 8

====
